---- MODULE Spec2Model ----
(***************************************************************************)
(* Elevator cabin controller of projects/elevator: two cooperating event   *)
(* driven state machines, Elevator (elevator.cpp) and Motor (motor.cpp).   *)
(* An external event is dispatched synchronously; the whole reaction chain *)
(* of one external post is one action of the model.  The effects of the    *)
(* chain (transitions, transition actions, entry actions, directives) are  *)
(* recorded in order in `log`, as pairs <<kind, name>>.                    *)
(***************************************************************************)
EXTENDS Integers, Sequences, FiniteSets, TLC

\* ------------------------------------------------------------------------
\* Bounds
\* ------------------------------------------------------------------------

\* highest floor number carried by an event
MaxFloor == 2

\* number of past external posts remembered in `history`
HistLen == 2

\* the count of sensor readings of a trip saturates above the longest trip
TripCap == MaxFloor + 3

\* floors carried by Call / FloorSensor events (int in the source; the
\* lowest value is below any floor the cabin starts at)
Floors == (0 - 1) .. MaxFloor

\* configured ground floors (Elevator::initial_floor)
InitialFloors == 0 .. MaxFloor

VARIABLES elevator, motor, direction, current_floor, dest_floor, log, history,
          trip

vars ==
  <<elevator, motor, direction, current_floor, dest_floor, log, history, trip>>

\* ------------------------------------------------------------------------
\* The machines' state as one value, threaded through the reactions
\* ------------------------------------------------------------------------

Cabin ==
  [elevator |-> elevator, motor |-> motor, direction |-> direction,
   current_floor |-> current_floor, dest_floor |-> dest_floor]

Note(s, what) == [s EXCEPT !.log = Append(@, what)]

\* ------------------------------------------------------------------------
\* motor.cpp
\* ------------------------------------------------------------------------

Stopped_entry(s) == [s EXCEPT !.direction = 0]

Up_entry(s) == [s EXCEPT !.direction = 1]

Down_entry_positive(s) == [s EXCEPT !.direction = 1]

Down_entry(s) == [s EXCEPT !.direction = 0 - 1]

Motor_entry(s) ==
  CASE s.motor = "Stopped" -> Stopped_entry(s)
    [] s.motor = "Up"      -> Up_entry(s)
    [] s.motor = "Down"    -> Down_entry(s)

\* Motor's transit<S>(): make S the active variant, then run its entry
Motor_transit(s, S) ==
  Motor_entry(Note([s EXCEPT !.motor = S], <<"motor", S>>))

Motor_react_MotorStop(s) == Motor_transit(s, "Stopped")

Motor_react_MotorUp_stuck(s) == s

Motor_react_MotorUp(s) == Motor_transit(s, "Up")

Motor_react_MotorDown_guarded(s) ==
  IF s.motor = "Stopped" THEN Motor_transit(s, "Down") ELSE s

Motor_react_MotorDown(s) == Motor_transit(s, "Down")

Motor_getDirection(s) == s.direction

\* ------------------------------------------------------------------------
\* Event dispatch: send_event delivers the directive to the Motor's active
\* variant and returns when that reaction has completed
\* ------------------------------------------------------------------------

Motor_react(s, d) ==
  CASE d = "MotorStop" -> Motor_react_MotorStop(s)
    [] d = "MotorUp"   -> Motor_react_MotorUp(s)
    [] d = "MotorDown" -> Motor_react_MotorDown(s)

send_event(s, d) ==
  Note(Motor_react(Note(s, <<"post", d>>), d), <<"done", d>>)

\* ------------------------------------------------------------------------
\* elevator.cpp
\* ------------------------------------------------------------------------

CallMaintenance(s) == Note(s, <<"action", "CallMaintenance">>)

CallFirefighters(s) == Note(s, <<"action", "CallFirefighters">>)

Panic_entry_silent(s) == s

Panic_entry(s) == send_event(s, "MotorStop")

Idle_entry_silent(s) == s

Idle_entry(s) == send_event(s, "MotorStop")

Elevator_entry(s) ==
  CASE s.elevator = "Panic"  -> Panic_entry(Note(s, <<"entry", "Panic">>))
    [] s.elevator = "Idle"   -> Idle_entry(Note(s, <<"entry", "Idle">>))
    [] s.elevator = "Moving" -> s

\* transition actions
NoAction == "none"

Idle_Call_action_swapped(s) ==
  IF s.dest_floor > s.current_floor THEN send_event(s, "MotorDown")
  ELSE IF s.dest_floor < s.current_floor THEN send_event(s, "MotorUp")
  ELSE s

Idle_Call_action(s) ==
  IF s.dest_floor > s.current_floor THEN send_event(s, "MotorUp")
  ELSE IF s.dest_floor < s.current_floor THEN send_event(s, "MotorDown")
  ELSE s

RunAction(s, action) ==
  CASE action = "none"             -> s
    [] action = "CallMaintenance"  -> CallMaintenance(s)
    [] action = "CallFirefighters" -> CallFirefighters(s)
    [] action = "Idle_Call_action" -> Idle_Call_action(s)

\* Elevator's transit<S>(action): the active variant becomes S, the action
\* runs, then S's entry action runs
transit(s, S, action) ==
  Elevator_entry(RunAction(Note([s EXCEPT !.elevator = S], <<"transit", S>>), action))

Moving_react_FloorSensor_setsfloor(s, f) ==
  LET floor_expected == s.current_floor + Motor_getDirection(s) IN
  IF floor_expected # f
  THEN transit([s EXCEPT !.current_floor = f], "Panic", "CallMaintenance")
  ELSE LET t == [s EXCEPT !.current_floor = f] IN
       IF f = t.dest_floor THEN transit(t, "Idle", NoAction) ELSE t

Moving_react_FloorSensor_forgets(s, f) ==
  LET floor_expected == s.current_floor + Motor_getDirection(s) IN
  IF floor_expected # f
  THEN transit(s, "Panic", "CallMaintenance")
  ELSE IF f = s.dest_floor
       THEN transit([s EXCEPT !.current_floor = f], "Idle", NoAction)
       ELSE s

Moving_react_FloorSensor_wronghook(s, f) ==
  LET floor_expected == s.current_floor + Motor_getDirection(s) IN
  IF floor_expected # f
  THEN transit(s, "Panic", "CallFirefighters")
  ELSE LET t == [s EXCEPT !.current_floor = f] IN
       IF f = t.dest_floor THEN transit(t, "Idle", NoAction) ELSE t

Moving_react_FloorSensor_stopsearly(s, f) ==
  LET floor_expected == s.current_floor + Motor_getDirection(s) IN
  IF floor_expected # f
  THEN transit(s, "Panic", "CallMaintenance")
  ELSE transit([s EXCEPT !.current_floor = f], "Idle", NoAction)

Moving_react_FloorSensor_overshoots(s, f) ==
  LET floor_expected == s.current_floor + Motor_getDirection(s) IN
  IF floor_expected # f
  THEN transit(s, "Panic", "CallMaintenance")
  ELSE [s EXCEPT !.current_floor = f]

Moving_react_FloorSensor(s, f) ==
  LET floor_expected == s.current_floor + Motor_getDirection(s) IN
  IF floor_expected # f
  THEN transit(s, "Panic", "CallMaintenance")
  ELSE LET t == [s EXCEPT !.current_floor = f] IN
       IF f = t.dest_floor THEN transit(t, "Idle", NoAction) ELSE t

Idle_react_Call_noreturn(s, f) ==
  transit([s EXCEPT !.dest_floor = f], "Moving", "Idle_Call_action")

Idle_react_Call(s, f) ==
  LET t == [s EXCEPT !.dest_floor = f] IN
  IF t.dest_floor = t.current_floor THEN t
  ELSE transit(t, "Moving", "Idle_Call_action")

\* base state: default implementations
Elevator_react_Call_asIdle(s, f) == Idle_react_Call(s, f)

Elevator_react_Call(s, f) == s

Elevator_react_FloorSensor_asMoving(s, f) == Moving_react_FloorSensor(s, f)

Elevator_react_FloorSensor(s, f) == s

Elevator_react_Alarm_toggle(s) ==
  IF s.elevator = "Panic" THEN transit(s, "Idle", NoAction)
  ELSE transit(s, "Panic", "CallFirefighters")

Elevator_react_Alarm_park(s) ==
  transit([s EXCEPT !.dest_floor = s.current_floor], "Panic", "CallFirefighters")

Elevator_react_Alarm_hooklate(s) == CallFirefighters(transit(s, "Panic", NoAction))

Elevator_react_Alarm(s) == transit(s, "Panic", "CallFirefighters")

\* dispatch of an external event to the active variant's reaction
Elevator_react(s, e) ==
  CASE e.type = "Call" ->
         IF s.elevator = "Idle" THEN Idle_react_Call(s, e.floor)
         ELSE Elevator_react_Call(s, e.floor)
    [] e.type = "FloorSensor" ->
         IF s.elevator = "Moving" THEN Moving_react_FloorSensor(s, e.floor)
         ELSE Elevator_react_FloorSensor(s, e.floor)
    [] e.type = "Alarm" -> Elevator_react_Alarm(s)
    [] OTHER -> send_event(s, e.type)

\* ------------------------------------------------------------------------
\* Events
\* ------------------------------------------------------------------------

Call(f) == [type |-> "Call", floor |-> f]

FloorSensor(f) == [type |-> "FloorSensor", floor |-> f]

Alarm == [type |-> "Alarm"]

Directives == {"MotorStop", "MotorUp", "MotorDown"}

Directive(d) == [type |-> d]

\* ------------------------------------------------------------------------
\* State machine
\* ------------------------------------------------------------------------

\* the trip record when no trip is under way
NoTrip(floor) == [start |-> floor, dest |-> floor, sensors |-> 0]

\* FSM_INITIAL_STATE(Elevator, Idle), FSM_INITIAL_STATE(Motor, Stopped) and
\* the static fields' initialisers
Init ==
  /\ elevator = "Idle"
  /\ motor = "Stopped"
  /\ direction = 0
  /\ current_floor \in InitialFloors
  /\ dest_floor = current_floor
  /\ log = <<>>
  /\ history = <<>>
  /\ trip = NoTrip(current_floor)

Remember(e) ==
  LET h == <<[ev |-> e, pre |-> Cabin]>> \o history IN
  IF Len(h) > HistLen THEN SubSeq(h, 1, HistLen) ELSE h

\* the trip under way: where the Call accepted in Idle found the cabin, the
\* floor it asked for, and the FloorSensor events posted in Moving since.
\* The record is kept through the arrival in Idle; any other event that
\* leaves the cabin not Moving, and any directive posted from outside,
\* ends the trip: the record then names no trip (start = dest).
Travel(e, r) ==
  IF e.type = "Call" /\ elevator = "Idle" /\ r.elevator = "Moving"
  THEN [start |-> current_floor, dest |-> e.floor, sensors |-> 0]
  ELSE IF e.type = "FloorSensor" /\ elevator = "Moving"
          /\ r.elevator # "Panic" /\ trip.start # trip.dest
       THEN [trip EXCEPT !.sensors = IF @ < TripCap THEN @ + 1 ELSE @]
       ELSE IF e.type = "Call" /\ r.elevator = "Moving"
            THEN trip
            ELSE NoTrip(r.current_floor)

\* one external post, run to completion
post(e) ==
  LET r == Elevator_react(
             [elevator |-> elevator, motor |-> motor, direction |-> direction,
              current_floor |-> current_floor, dest_floor |-> dest_floor,
              log |-> <<>>], e) IN
  /\ elevator' = r.elevator
  /\ motor' = r.motor
  /\ direction' = r.direction
  /\ current_floor' = r.current_floor
  /\ dest_floor' = r.dest_floor
  /\ log' = r.log
  /\ history' = Remember(e)
  /\ trip' = Travel(e, r)

PostCall == \E f \in Floors : post(Call(f))

PostFloorSensor == \E f \in Floors : post(FloorSensor(f))

PostAlarm == post(Alarm)

PostDirective == \E d \in Directives : post(Directive(d))

Next == PostCall \/ PostFloorSensor \/ PostAlarm

Spec == Init /\ [][Next]_vars

NextMotor == PostCall \/ PostFloorSensor \/ PostAlarm \/ PostDirective

SpecMotor == Init /\ [][NextMotor]_vars

\* a sensor that reports the floor the cabin is heading to next
SensorExpected ==
  /\ elevator = "Moving"
  /\ current_floor + direction \in Floors
  /\ post(FloorSensor(current_floor + direction))

\* calls and truthful sensor readings only, the sensor never falling silent
\* during a trip
NextTrip == PostCall \/ SensorExpected

SpecTrip == Init /\ [][NextTrip]_vars /\ WF_vars(SensorExpected)

\* ------------------------------------------------------------------------
\* Observations on the last external post(s)
\* ------------------------------------------------------------------------

Posted == Len(history) >= 1

ev == history[1].ev

pre == history[1].pre

PostedTwice == Len(history) >= 2

ev2 == history[2].ev

pre2 == history[2].pre

TypeOK ==
  /\ elevator \in {"Idle", "Moving", "Panic"}
  /\ motor \in {"Stopped", "Up", "Down"}
  /\ direction \in {0 - 1, 0, 1}
  /\ current_floor \in Floors
  /\ dest_floor \in Floors
  /\ trip.sensors \in 0 .. TripCap

\* ------------------------------------------------------------------------
\* Properties
\* ------------------------------------------------------------------------

Invoked(hook) == \E i \in DOMAIN log : log[i] = <<"action", hook>>

\* C1 (call-to-motion): a Call{f} posted in Idle with f # current_floor
\* yields destination_floor = f, Elevator = Moving, current_floor unchanged,
\* and Motor = Up (direction +1) when f is above, Down (direction -1) when
\* f is below.
C1_CallToMotion ==
  (Posted /\ ev.type = "Call" /\ pre.elevator = "Idle"
          /\ ev.floor # pre.current_floor) =>
    /\ dest_floor = ev.floor
    /\ elevator = "Moving"
    /\ current_floor = pre.current_floor
    /\ (ev.floor > pre.current_floor => motor = "Up" /\ direction = 1)
    /\ (ev.floor < pre.current_floor => motor = "Down" /\ direction = 0 - 1)

C1_Witness ==
  /\ Posted /\ ev.type = "Call" /\ pre.elevator = "Idle"
  /\ ev.floor < pre.current_floor
  /\ elevator = "Moving" /\ motor = "Down"

\* C2 (fault on mismatch): a FloorSensor{f} posted in Moving with
\* f # current_floor + direction puts the Elevator in Panic and the Motor
\* in Stopped (direction 0), invokes the maintenance notification, and
\* leaves current_floor and destination_floor unchanged.
C2_FaultOnMismatch ==
  (Posted /\ ev.type = "FloorSensor" /\ pre.elevator = "Moving"
          /\ ev.floor # pre.current_floor + pre.direction) =>
    /\ elevator = "Panic"
    /\ motor = "Stopped" /\ direction = 0
    /\ Invoked("CallMaintenance")
    /\ current_floor = pre.current_floor
    /\ dest_floor = pre.dest_floor

C2_Witness ==
  /\ Posted /\ ev.type = "FloorSensor" /\ pre.elevator = "Moving"
  /\ ev.floor = pre.current_floor + 2 * pre.direction
  /\ pre.direction # 0
  /\ elevator = "Panic"

\* C3 (arrival stops at destination): a FloorSensor{f} posted in Moving with
\* f = current_floor + direction and f = destination_floor sets
\* current_floor = f, puts the Elevator in Idle and the Motor in Stopped
\* (direction 0).
C3_ArrivalStops ==
  (Posted /\ ev.type = "FloorSensor" /\ pre.elevator = "Moving"
          /\ ev.floor = pre.current_floor + pre.direction
          /\ ev.floor = pre.dest_floor) =>
    /\ current_floor = ev.floor
    /\ elevator = "Idle"
    /\ motor = "Stopped" /\ direction = 0

C3_Witness ==
  /\ Posted /\ ev.type = "FloorSensor" /\ pre.elevator = "Moving"
  /\ pre.motor = "Up"
  /\ ev.floor = pre.current_floor + 1 /\ ev.floor = pre.dest_floor
  /\ elevator = "Idle" /\ current_floor = ev.floor

\* C4 (alarm always wins): whatever the Elevator and Motor states were, after
\* an Alarm the Elevator is in Panic and the Motor is Stopped (direction 0).
C4_AlarmWins ==
  (Posted /\ ev.type = "Alarm") =>
    elevator = "Panic" /\ motor = "Stopped" /\ direction = 0

C4_Witness ==
  /\ Posted /\ ev.type = "Alarm"
  /\ pre.elevator = "Moving" /\ pre.motor = "Down"
  /\ elevator = "Panic" /\ motor = "Stopped"

\* C5 (Panic is terminal): once the Elevator is in Panic, every further Call,
\* FloorSensor or Alarm leaves it in Panic with the Motor Stopped.
C5_PanicTerminal ==
  (Posted /\ pre.elevator = "Panic") =>
    /\ elevator = "Panic"
    /\ pre.motor = "Stopped"
    /\ motor = "Stopped" /\ direction = 0

C5_Witness ==
  /\ PostedTwice
  /\ pre2.elevator = "Panic" /\ ev2.type = "FloorSensor"
  /\ pre.elevator = "Panic" /\ ev.type = "Call"
  /\ ev.floor # pre.current_floor
  /\ elevator = "Panic"

\* directives posted / completely handled during the last external post
Kind(k) == SelectSeq(log, LAMBDA x : x[1] = k)

Names(q) == [i \in DOMAIN q |-> q[i][2]]

MotorOf(d) ==
  CASE d = "MotorStop" -> "Stopped"
    [] d = "MotorUp"   -> "Up"
    [] d = "MotorDown" -> "Down"

\* C6 (run-to-completion): every directive posted by an Elevator reaction is
\* handled by the Motor, in the order posted, before anything else happens
\* and before the external post returns; after Call{f} with f above
\* current_floor returns from Idle the Motor is already Up.
C6_RunToCompletion ==
  Posted =>
    /\ Names(Kind("post")) = Names(Kind("done"))
    /\ \A i \in DOMAIN log :
         log[i][1] = "post" =>
           /\ i + 2 <= Len(log)
           /\ log[i + 1] = <<"motor", MotorOf(log[i][2])>>
           /\ log[i + 2] = <<"done", log[i][2]>>
    /\ (Len(Kind("post")) > 0 =>
          motor = MotorOf(Kind("post")[Len(Kind("post"))][2]))
    /\ (ev.type = "Call" /\ pre.elevator = "Idle"
          /\ ev.floor > pre.current_floor => motor = "Up")

C6_Witness ==
  /\ Posted /\ ev.type = "Call" /\ pre.elevator = "Idle"
  /\ ev.floor > pre.current_floor
  /\ log = <<<<"transit", "Moving">>, <<"post", "MotorUp">>,
             <<"motor", "Up">>, <<"done", "MotorUp">>>>
  /\ motor = "Up"

\* C7 (no-op same-floor call): a Call{f} posted in Idle with
\* f = current_floor leaves the Elevator in Idle with no transition, no
\* entry action and no directive, and leaves Motor state, direction and
\* current_floor unchanged.
C7_SameFloorCall ==
  (Posted /\ ev.type = "Call" /\ pre.elevator = "Idle"
          /\ ev.floor = pre.current_floor) =>
    /\ elevator = "Idle"
    /\ log = <<>>
    /\ motor = pre.motor /\ direction = pre.direction
    /\ current_floor = pre.current_floor

C7_Witness ==
  /\ Posted /\ ev.type = "Call" /\ pre.elevator = "Idle"
  /\ ev.floor = pre.current_floor
  /\ elevator = "Idle" /\ dest_floor = ev.floor

\* C8 (idempotent re-entry): from Idle, a second Alarm right after a first
\* one leaves Elevator state, Motor state, direction, current_floor and
\* destination_floor exactly as the first one left them (Panic / Stopped).
C8_AlarmIdempotent ==
  (PostedTwice /\ pre2.elevator = "Idle" /\ ev2.type = "Alarm"
               /\ ev.type = "Alarm") =>
    /\ Cabin = pre
    /\ elevator = "Panic" /\ motor = "Stopped" /\ direction = 0

C8_Witness ==
  /\ PostedTwice /\ pre2.elevator = "Idle" /\ ev2.type = "Alarm"
  /\ ev.type = "Alarm"
  /\ pre.elevator = "Panic" /\ elevator = "Panic"

\* C9 as stated (every event in Panic is a no-op): a Call, FloorSensor or
\* Alarm posted in Panic performs no transition, runs no entry action,
\* invokes no hook and posts no directive.
C9_PanicIgnoresAll ==
  (Posted /\ pre.elevator = "Panic") => log = <<>>

PanicReentry ==
  <<<<"transit", "Panic">>, <<"action", "CallFirefighters">>,
    <<"entry", "Panic">>, <<"post", "MotorStop">>,
    <<"motor", "Stopped">>, <<"done", "MotorStop">>>>

\* C9 (amended): a Call or FloorSensor posted in Panic is a no-op (no
\* transition, entry action, hook or directive); an Alarm posted in Panic
\* re-enters Panic: it invokes the firefighter notification and Panic's
\* entry posts MotorStop again.  Either way Elevator state, Motor state,
\* direction and both floors are as before.
C9_PanicIgnoresCallAndSensor ==
  (Posted /\ pre.elevator = "Panic") =>
    /\ Cabin = pre
    /\ (ev.type \in {"Call", "FloorSensor"} => log = <<>>)
    /\ (ev.type = "Alarm" => log = PanicReentry)

C9_Witness ==
  /\ PostedTwice
  /\ pre2.elevator = "Panic" /\ ev2.type = "FloorSensor"
  /\ pre.elevator = "Panic" /\ ev.type = "Alarm"
  /\ log = PanicReentry

\* C10 (cabin-state frame): current_floor changes only in the reaction to a
\* FloorSensor event and destination_floor only in the reaction to a Call
\* event; Alarm and the Motor directives leave both unchanged.
C10_CabinFrame ==
  Posted =>
    /\ (current_floor # pre.current_floor => ev.type = "FloorSensor")
    /\ (dest_floor # pre.dest_floor => ev.type = "Call")

C10_Witness ==
  /\ PostedTwice
  /\ ev2.type = "Call" /\ pre.dest_floor # pre2.dest_floor
  /\ ev.type = "FloorSensor" /\ current_floor # pre.current_floor

\* C11 (direction is a projection of Motor state): in every reachable
\* quiescent state, the bootstrap state included, direction is 0 exactly
\* when the Motor is Stopped, +1 exactly when Up and -1 exactly when Down.
C11_DirectionProjection ==
  /\ (direction = 0 <=> motor = "Stopped")
  /\ (direction = 1 <=> motor = "Up")
  /\ (direction = 0 - 1 <=> motor = "Down")

C11_Witness ==
  /\ Posted /\ pre.motor = "Stopped" /\ pre.direction = 0
  /\ motor = "Down" /\ direction = 0 - 1

\* C12 (unhandled events are silent no-ops): a Call posted in Moving, or a
\* FloorSensor posted in Idle, whatever floor it carries, leaves Elevator
\* state, both floors, Motor state and direction unchanged and posts no
\* directive.
C12_UnhandledNoOp ==
  (Posted /\ \/ (ev.type = "Call" /\ pre.elevator = "Moving")
             \/ (ev.type = "FloorSensor" /\ pre.elevator = "Idle")) =>
    /\ Cabin = pre
    /\ log = <<>>

C12_Witness ==
  /\ PostedTwice
  /\ pre2.elevator = "Idle" /\ ev2.type = "Call"
  /\ pre.elevator = "Moving" /\ ev.type = "Call"
  /\ ev.floor # pre.dest_floor /\ ev.floor # pre.current_floor
  /\ elevator = "Moving" /\ dest_floor = pre.dest_floor

\* C13 (transition-action ordering): the action of a transition runs after
\* the active variant has become the new one and before the new variant's
\* entry action: MotorUp / MotorDown is posted with the Elevator already in
\* Moving, and a notification hook runs right after the switch to Panic and
\* right before Panic's entry posts MotorStop.
C13_ActionOrdering ==
  Posted =>
    \A i \in DOMAIN log :
      /\ (log[i] \in {<<"post", "MotorUp">>, <<"post", "MotorDown">>} =>
            i > 1 /\ log[i - 1] = <<"transit", "Moving">>)
      /\ (log[i][1] = "action" =>
            /\ i > 1 /\ log[i - 1] = <<"transit", "Panic">>
            /\ i + 2 <= Len(log)
            /\ log[i + 1] = <<"entry", "Panic">>
            /\ log[i + 2] = <<"post", "MotorStop">>)
      /\ (log[i][1] = "entry" =>
            i > 1 /\ log[i - 1][1] \in {"transit", "action"})

C13_Witness ==
  /\ Posted /\ ev.type = "FloorSensor" /\ pre.elevator = "Moving"
  /\ SubSeq(log, 1, 4) = <<<<"transit", "Panic">>,
                           <<"action", "CallMaintenance">>,
                           <<"entry", "Panic">>,
                           <<"post", "MotorStop">>>>

\* C14 (intermediate floor): a FloorSensor{f} posted in Moving with
\* f = current_floor + direction and f # destination_floor sets
\* current_floor = f and changes nothing else: the Elevator stays in
\* Moving, Motor state, direction and destination_floor are as before, no
\* directive is posted and no notification is invoked.
C14_IntermediateFloor ==
  (Posted /\ ev.type = "FloorSensor" /\ pre.elevator = "Moving"
          /\ ev.floor = pre.current_floor + pre.direction
          /\ ev.floor # pre.dest_floor) =>
    /\ current_floor = ev.floor
    /\ elevator = "Moving"
    /\ motor = pre.motor /\ direction = pre.direction
    /\ dest_floor = pre.dest_floor
    /\ log = <<>>

C14_Witness ==
  /\ Posted /\ ev.type = "FloorSensor" /\ pre.elevator = "Moving"
  /\ pre.motor = "Down"
  /\ ev.floor = pre.current_floor - 1 /\ ev.floor # pre.dest_floor
  /\ current_floor = ev.floor /\ elevator = "Moving"

DirectionOf(d) ==
  CASE d = "MotorStop" -> 0
    [] d = "MotorUp"   -> 1
    [] d = "MotorDown" -> 0 - 1

\* C15 (Motor reactions are unguarded): whatever the Motor state, the
\* Elevator state and the floors were, MotorStop leads to Stopped with
\* direction 0, MotorUp to Up with direction +1 and MotorDown to Down with
\* direction -1; a directive naming the current state re-enters it with the
\* same direction.
C15_MotorUnguarded ==
  (Posted /\ ev.type \in Directives) =>
    /\ motor = MotorOf(ev.type)
    /\ direction = DirectionOf(ev.type)
    /\ log = <<<<"post", ev.type>>, <<"motor", MotorOf(ev.type)>>,
               <<"done", ev.type>>>>
    /\ (pre.motor = MotorOf(ev.type) => direction = pre.direction)

C15_Witness ==
  /\ PostedTwice
  /\ ev2.type = "MotorUp" /\ pre.motor = "Up" /\ pre.elevator = "Panic"
  /\ ev.type = "MotorDown"
  /\ motor = "Down" /\ direction = 0 - 1

Count(hook) == Len(SelectSeq(log, LAMBDA x : x = <<"action", hook>>))

\* C16 (fault notifications are distinct per trigger): a FloorSensor
\* mismatch in Moving invokes the maintenance notification exactly once and
\* never the firefighter one; an Alarm invokes the firefighter notification
\* exactly once and never the maintenance one; no other reaction invokes
\* either hook.
C16_DistinctNotifications ==
  Posted =>
    /\ Count("CallMaintenance") =
         (IF /\ ev.type = "FloorSensor" /\ pre.elevator = "Moving"
             /\ ev.floor # pre.current_floor + pre.direction
          THEN 1 ELSE 0)
    /\ Count("CallFirefighters") = (IF ev.type = "Alarm" THEN 1 ELSE 0)

C16_Witness ==
  /\ PostedTwice
  /\ ev2.type = "FloorSensor" /\ pre2.elevator = "Moving"
  /\ Len(SelectSeq(log, LAMBDA x : x = <<"action", "CallFirefighters">>)) = 1
  /\ pre.elevator = "Panic" /\ ev.type = "Alarm"

\* C17 (Elevator / Motor coupling): under Call, FloorSensor and Alarm events
\* only, starting from the bootstrap state, the Motor is Stopped whenever
\* the Elevator is Idle or Panic, and Up or Down whenever it is Moving.
C17_Coupling ==
  /\ (elevator \in {"Idle", "Panic"} => motor = "Stopped")
  /\ (elevator = "Moving" => motor \in {"Up", "Down"})

C17_Witness ==
  /\ PostedTwice
  /\ pre2.elevator = "Idle" /\ pre2.motor = "Stopped"
  /\ pre.elevator = "Moving" /\ pre.motor = "Up"
  /\ elevator = "Idle" /\ motor = "Stopped"

Sign(n) == IF n > 0 THEN 1 ELSE IF n < 0 THEN 0 - 1 ELSE 0

Abs(n) == IF n < 0 THEN 0 - n ELSE n

\* C18 (Moving heads toward the destination): whenever the Elevator is
\* Moving, current_floor # destination_floor and direction is the sign of
\* destination_floor - current_floor; every FloorSensor accepted in Moving
\* brings current_floor exactly one floor closer to destination_floor.
C18_HeadsToDestination ==
  /\ (elevator = "Moving" =>
        /\ current_floor # dest_floor
        /\ direction = Sign(dest_floor - current_floor))
  /\ (Posted /\ ev.type = "FloorSensor" /\ pre.elevator = "Moving"
             /\ ev.floor = pre.current_floor + pre.direction =>
        Abs(dest_floor - current_floor) =
          Abs(pre.dest_floor - pre.current_floor) - 1)

C18_Witness ==
  /\ Posted /\ ev.type = "FloorSensor" /\ pre.elevator = "Moving"
  /\ ev.floor = pre.current_floor + pre.direction
  /\ elevator = "Moving" /\ direction = 1
  /\ dest_floor - current_floor = 1

\* C19 (Idle means arrived): whenever the Elevator is Idle,
\* current_floor = destination_floor, also after a same-floor Call and after
\* every completed trip.
C19_IdleArrived ==
  elevator = "Idle" => current_floor = dest_floor

C19_Witness ==
  /\ PostedTwice
  /\ pre2.elevator = "Moving" /\ ev2.type = "FloorSensor"
  /\ pre.elevator = "Idle" /\ ev.type = "Call"
  /\ ev.floor = pre.current_floor
  /\ elevator = "Idle" /\ current_floor = dest_floor

\* C20 (trip completion): after a Call{f} accepted in Idle with
\* f # current_floor, if no Alarm is posted and FloorSensor events keep
\* being posted, each reporting current_floor + direction, the Elevator
\* never enters Panic and eventually is Idle again with current_floor = f
\* and the Motor Stopped, after exactly |f - starting floor| FloorSensor
\* events.
C20_TripCompletion ==
  /\ [](elevator # "Panic")
  /\ [](elevator = "Moving" =>
          /\ dest_floor = trip.dest
          /\ trip.sensors = Abs(current_floor - trip.start)
          /\ trip.sensors < Abs(trip.dest - trip.start))
  /\ [](Posted /\ ev.type = "FloorSensor" /\ elevator = "Idle" =>
          /\ current_floor = trip.dest
          /\ trip.sensors = Abs(trip.dest - trip.start))
  /\ [][elevator = "Moving" =>
          /\ trip'.start = trip.start /\ trip'.dest = trip.dest
          /\ (elevator' = "Idle" => current_floor' = trip.dest)]_vars
  /\ (elevator = "Moving")
       ~> (/\ elevator = "Idle" /\ motor = "Stopped"
           /\ current_floor = trip.dest
           /\ trip.sensors = Abs(trip.dest - trip.start))

C20_Witness ==
  /\ Posted /\ ev.type = "FloorSensor" /\ pre.elevator = "Moving"
  /\ elevator = "Idle" /\ motor = "Stopped"
  /\ current_floor = trip.dest
  /\ trip.sensors = MaxFloor

====
